---- MODULE Spec2Model ----
(***************************************************************************)
(* A model of the flask-file-server request handlers (python/routes.py),   *)
(* the archive helpers (python/utils.py) and the directory catalogue       *)
(* (python/file_manager.py) over an explicit POSIX-style filesystem.       *)
(*                                                                         *)
(* Strings are sequences of one-character strings, so that splitting on    *)
(* "/", sanitising a file name and taking an extension are computed, not   *)
(* assumed.  A path is a sequence of segments; a segment is a string.      *)
(***************************************************************************)
EXTENDS Integers, Sequences, FiniteSets, TLC

VARIABLES
    fs,      \* the filesystem: absolute path -> node, for every existing path
    pre,     \* the filesystem as it was when the last request started
    has7z,   \* whether the 7z binary is on the host (is_7z_available)
    last,    \* what the last request was given and what it answered
    threads  \* the requests being handled at the same time, each with its position

vars == <<fs, pre, has7z, last, threads>>

----------------------------------------------------------------------------
(* Strings *)

Slash  == "/"
Dot    == "."
DotDot == <<".", ".">>

Upper == <<"A","B","C","D","E","F","G","H","I","J","K","L","M",
           "N","O","P","Q","R","S","T","U","V","W","X","Y","Z">>
Lower == <<"a","b","c","d","e","f","g","h","i","j","k","l","m",
           "n","o","p","q","r","s","t","u","v","w","x","y","z">>
Digits == {"0","1","2","3","4","5","6","7","8","9"}

Range(s) == {s[i] : i \in DOMAIN s}

\* str.lower() on one character, then on a string
LowerChar(c) ==
    IF \E i \in DOMAIN Upper : Upper[i] = c
    THEN Lower[CHOOSE i \in DOMAIN Upper : Upper[i] = c]
    ELSE c

StrLower(s) == [i \in DOMAIN s |-> LowerChar(s[i])]

\* s.startswith(p) / s.endswith(p)
StartsWith(s, p) == Len(p) <= Len(s) /\ SubSeq(s, 1, Len(p)) = p
EndsWith(s, p) == Len(p) <= Len(s) /\ SubSeq(s, Len(s) - Len(p) + 1, Len(s)) = p

\* s.split(sep): the pieces between the separators, empty pieces kept
RECURSIVE Split(_, _)
Split(s, sep) ==
    IF s = <<>> THEN << <<>> >>
    ELSE LET r == Split(Tail(s), sep)
         IN  IF Head(s) = sep THEN << <<>> >> \o r
             ELSE << <<Head(s)>> \o Head(r) >> \o Tail(r)

\* sep.join(parts)
RECURSIVE Join(_, _)
Join(parts, sep) ==
    IF parts = <<>> THEN <<>>
    ELSE IF Len(parts) = 1 THEN Head(parts)
    ELSE Head(parts) \o <<sep>> \o Join(Tail(parts), sep)

\* s.lstrip(chars) / s.strip(chars)
RECURSIVE LStrip(_, _)
LStrip(s, chars) ==
    IF s # <<>> /\ Head(s) \in chars THEN LStrip(Tail(s), chars) ELSE s

RECURSIVE RStrip(_, _)
RStrip(s, chars) ==
    IF s # <<>> /\ s[Len(s)] \in chars THEN RStrip(SubSeq(s, 1, Len(s) - 1), chars) ELSE s

Strip(s, chars) == RStrip(LStrip(s, chars), chars)

\* the index of the last occurrence of c in s, 0 when there is none
RECURSIVE LastIndex(_, _)
LastIndex(s, c) ==
    IF s = <<>> THEN 0
    ELSE IF s[Len(s)] = c THEN Len(s)
    ELSE LastIndex(SubSeq(s, 1, Len(s) - 1), c)

----------------------------------------------------------------------------
(* Configuration *)

\* Config.OUTPUT_DIR, the storage root: the directory /u
OUTPUT_DIR == << <<"u">> >>

\* the host's temporary directory (tempfile.gettempdir()): /t
TMPDIR == << <<"t">> >>

\* the name tempfile gives a fresh entry; no caller-supplied name sanitises to it,
\* but an archive member may carry it
TmpName == <<"~">>

ALLOWED_EXTENSIONS == {
    <<"t", "x", "t">>, <<"p", "d", "f">>, <<"d", "o", "c">>, <<"d", "o", "c", "x">>,
    <<"x", "l", "s">>, <<"x", "l", "s", "x">>, <<"p", "p", "t">>, <<"p", "p", "t", "x">>,
    <<"o", "d", "t">>, <<"o", "d", "s">>, <<"o", "d", "p">>, <<"r", "t", "f">>,
    <<"t", "e", "x">>, <<"w", "p", "d">>, <<"c", "s", "v">>, <<"m", "d">>,
    <<"j", "s", "o", "n">>, <<"x", "m", "l">>, <<"j", "p", "g">>, <<"j", "p", "e", "g">>,
    <<"p", "n", "g">>, <<"g", "i", "f">>, <<"b", "m", "p">>, <<"s", "v", "g">>,
    <<"w", "e", "b", "p">>, <<"t", "i", "f", "f">>, <<"i", "c", "o">>, <<"m", "p", "3">>,
    <<"w", "a", "v">>, <<"o", "g", "g">>, <<"f", "l", "a", "c">>, <<"m", "4", "a">>,
    <<"a", "a", "c">>, <<"w", "m", "a">>, <<"m", "p", "4">>, <<"a", "v", "i">>,
    <<"m", "o", "v">>, <<"w", "m", "v">>, <<"f", "l", "v">>, <<"m", "k", "v">>,
    <<"w", "e", "b", "m">>, <<"m", "4", "v">>, <<"z", "i", "p">>, <<"r", "a", "r">>,
    <<"7", "z">>, <<"t", "a", "r">>, <<"g", "z">>, <<"b", "z", "2">>, <<"p", "y">>,
    <<"j", "s">>, <<"h", "t", "m", "l">>, <<"c", "s", "s">>, <<"j", "a", "v", "a">>, <<"c">>,
    <<"c", "p", "p">>, <<"h">>, <<"h", "p", "p">>, <<"p", "h", "p">>, <<"r", "b">>,
    <<"g", "o">>, <<"r", "s">>, <<"s", "w", "i", "f", "t">>, <<"k", "t">>, <<"t", "s">>,
    <<"s", "q", "l">>, <<"s", "h">>, <<"b", "a", "t">>, <<"p", "s", "1">>, <<"l", "o", "g">>,
    <<"i", "n", "i">>, <<"c", "f", "g">>, <<"c", "o", "n", "f">>, <<"y", "a", "m", "l">>,
    <<"y", "m", "l">>, <<"t", "o", "m", "l">>, <<"d", "b">>, <<"s", "q", "l", "i", "t", "e">>,
    <<"e", "x", "e">>, <<"d", "l", "l">>, <<"i", "s", "o">>, <<"b", "i", "n">>,
    <<"d", "a", "t">>
}

\* allowed_file without the lower-casing of the extension
allowed_file_case_sensitive(filename) ==
    /\ Dot \in Range(filename)
    /\ SubSeq(filename, LastIndex(filename, Dot) + 1, Len(filename))
          \in ALLOWED_EXTENSIONS

\* allowed_file(filename): a "." in the name and the text after the last ".",
\* lower-cased, in the table
allowed_file(filename) ==
    /\ Dot \in Range(filename)
    /\ StrLower(SubSeq(filename, LastIndex(filename, Dot) + 1, Len(filename)))
          \in ALLOWED_EXTENSIONS

\* no sanitising at all: the declared name is used as it came
secure_filename_raw(filename) == filename

\* werkzeug.utils.secure_filename on an ASCII name (POSIX: os.sep = "/", no altsep):
\* separators become blanks, the blank-separated pieces are joined by "_", every
\* character outside [A-Za-z0-9_.-] is dropped, leading and trailing "." and "_" go
SafeChars == Range(Upper) \cup Range(Lower) \cup Digits \cup {"_", ".", "-"}

secure_filename(filename) ==
    LET blanked == [i \in DOMAIN filename |->
                        IF filename[i] = Slash THEN " " ELSE filename[i]]
        pieces  == SelectSeq(Split(blanked, " "), LAMBDA p : p # <<>>)
        joined  == Join(pieces, "_")
        kept    == SelectSeq(joined, LAMBDA c : c \in SafeChars)
    IN  Strip(kept, {".", "_"})

----------------------------------------------------------------------------
(* Paths (pathlib.PurePosixPath) *)

\* the segments pathlib keeps of a string: empty and "." segments are dropped,
\* ".." is kept
Parts(s) == SelectSeq(Split(s, Slash), LAMBDA p : p # <<>> /\ p # <<".">>)

IsAbsolute(s) == s # <<>> /\ Head(s) = Slash

\* Path(base) / s: an absolute s replaces base
PathJoin(base, s) == IF IsAbsolute(s) THEN Parts(s) ELSE base \o Parts(s)

\* Path.parent (lexical); the root is its own parent
Parent(p) == IF p = <<>> THEN <<>> ELSE SubSeq(p, 1, Len(p) - 1)

\* Path.name
Name(p) == IF p = <<>> THEN <<>> ELSE p[Len(p)]

\* a is p or an ancestor of p, compared segment by segment
IsPrefix(a, p) == Len(a) <= Len(p) /\ SubSeq(p, 1, Len(a)) = a

\* str(path)
PathStr(p) == <<Slash>> \o Join(p, Slash)

----------------------------------------------------------------------------
(* The filesystem *)

Raw(b) == [fmt |-> "raw", bytes |-> b, members |-> <<>>]
DirNode == [kind |-> "dir", content |-> Raw("")]
FileNode(c) == [kind |-> "file", content |-> c]

IsDirAt(f, p) == p \in DOMAIN f /\ f[p].kind = "dir"
IsFileAt(f, p) == p \in DOMAIN f /\ f[p].kind = "file"

\* the kernel's path walk: each ".." goes to the parent of the directory reached so
\* far, and every component but the last must be an existing directory
RECURSIVE Walk(_, _, _)
Walk(f, cur, rest) ==
    IF rest = <<>> THEN [ok |-> TRUE, path |-> cur]
    ELSE IF ~IsDirAt(f, cur) THEN [ok |-> FALSE, path |-> cur]
    ELSE Walk(f, IF Head(rest) = DotDot THEN Parent(cur) ELSE Append(cur, Head(rest)),
              Tail(rest))

Namei(f, p) == Walk(f, <<>>, p)

\* Path.exists / is_file / is_dir: false when the walk fails
exists(f, p) == LET r == Namei(f, p) IN r.ok /\ r.path \in DOMAIN f
is_file(f, p) == LET r == Namei(f, p) IN r.ok /\ IsFileAt(f, r.path)
is_dir(f, p) == LET r == Namei(f, p) IN r.ok /\ IsDirAt(f, r.path)

\* the canonical path an existing p names
Real(f, p) == Namei(f, p).path

Without(f, gone) == [q \in DOMAIN f \ gone |-> f[q]]
With(f, p, node) == [q \in DOMAIN f \cup {p} |-> IF q = p THEN node ELSE f[q]]

Under(f, p) == {q \in DOMAIN f : IsPrefix(p, q)}
Children(f, p) == {q \in DOMAIN f : Len(q) = Len(p) + 1 /\ IsPrefix(p, q)}

\* the outcome of a system call: the filesystem after it and the error, "" for none
Ok(f) == [fs |-> f, err |-> ""]
Err(f, e) == [fs |-> f, err |-> e]

\* the error a failed walk raises: ENOTDIR through a file, ENOENT through nothing
WalkErr(f, r) == IF r.path \in DOMAIN f THEN "ENOTDIR" ELSE "ENOENT"

\* os.mkdir(p)
mkdir(f, p) ==
    LET r == Namei(f, p)
    IN  IF ~r.ok THEN Err(f, WalkErr(f, r))
        ELSE IF r.path \in DOMAIN f THEN Err(f, "EEXIST")
        ELSE Ok(With(f, r.path, DirNode))

\* os.makedirs(p, exist_ok=True) and Path.mkdir(parents=True, exist_ok=True): the
\* missing ancestors are made first, lexical parent by lexical parent; an existing
\* directory is no error, anything else in the way is
RECURSIVE makedirs(_, _)
makedirs(f, p) ==
    LET r == mkdir(f, p)
    IN  IF r.err = "" THEN r
        ELSE IF r.err = "ENOENT" /\ p # <<>>
        THEN LET up == makedirs(f, Parent(p))
             IN  IF up.err # "" THEN up
                 ELSE LET again == mkdir(up.fs, p)
                      IN  IF again.err = "" \/ is_dir(up.fs, p) THEN Ok(again.fs)
                          ELSE again
        ELSE IF is_dir(f, p) THEN Ok(f)
        ELSE r

\* open(p, "wb") and write: creates or truncates the file p names
WriteFile(f, p, content) ==
    LET r == Namei(f, p)
    IN  IF ~r.ok THEN Err(f, WalkErr(f, r))
        ELSE IF IsDirAt(f, r.path) THEN Err(f, "EISDIR")
        ELSE Ok(With(f, r.path, FileNode(content)))

\* os.unlink(p) / Path.unlink()
unlink(f, p) ==
    LET r == Namei(f, p)
    IN  IF ~r.ok THEN Err(f, WalkErr(f, r))
        ELSE IF r.path \notin DOMAIN f THEN Err(f, "ENOENT")
        ELSE IF IsDirAt(f, r.path) THEN Err(f, "EISDIR")
        ELSE Ok(Without(f, {r.path}))

\* os.rmdir(p): only an empty directory goes
rmdir(f, p) ==
    LET r == Namei(f, p)
    IN  IF ~r.ok THEN Err(f, WalkErr(f, r))
        ELSE IF r.path \notin DOMAIN f THEN Err(f, "ENOENT")
        ELSE IF ~IsDirAt(f, r.path) THEN Err(f, "ENOTDIR")
        ELSE IF Children(f, r.path) # {} THEN Err(f, "ENOTEMPTY")
        ELSE Ok(Without(f, {r.path}))

\* shutil.rmtree(p) on a directory: the directory and everything below it
rmtree(f, p) ==
    LET r == Namei(f, p)
    IN  IF ~r.ok THEN Err(f, WalkErr(f, r))
        ELSE IF ~IsDirAt(f, r.path) THEN Err(f, "ENOTDIR")
        ELSE Ok(Without(f, Under(f, r.path)))

\* a set as a sequence, each element once (the order a directory scan happens to give)
RECURSIVE SetToSeq(_)
SetToSeq(S) ==
    IF S = {} THEN <<>>
    ELSE LET x == CHOOSE y \in S : TRUE IN <<x>> \o SetToSeq(S \ {x})

\* os.listdir(p): the names of the immediate children
listdir(f, p) == SetToSeq({Name(q) : q \in Children(f, Real(f, p))})

----------------------------------------------------------------------------
(* What a request answered *)

NoResp == Raw("")

Answer(op, req, args, status, flash) ==
    [op |-> op, req |-> req, args |-> args, status |-> status, flash |-> flash,
     fault |-> "none", body |-> NoResp, resp |-> NoResp, temp |-> {},
     wrote |-> {}, folders |-> <<>>, files |-> <<>>,
     mimetype |-> "", download_name |-> <<>>, path |-> <<>>, dirs |-> <<>>,
     err |-> ""]

----------------------------------------------------------------------------
(* python/file_manager.py *)

\* list_directory without the is_dir test: every entry is reported as a file
list_directory_unclassified(f, path) ==
    LET dir_path == PathJoin(OUTPUT_DIR, path)
        made     == IF ~exists(f, dir_path) THEN makedirs(f, dir_path) ELSE Ok(f)
    IN  IF made.err # "" \/ ~is_dir(made.fs, dir_path)
        THEN [fs |-> made.fs, folders |-> <<>>, files |-> <<>>]
        ELSE [fs |-> made.fs, folders |-> <<>>, files |-> listdir(made.fs, dir_path)]

\* list_directory(path): the directory is made when missing; any error gives the
\* empty listing
list_directory(f, path) ==
    LET dir_path == PathJoin(OUTPUT_DIR, path)
        made     == IF ~exists(f, dir_path) THEN makedirs(f, dir_path) ELSE Ok(f)
        items    == listdir(made.fs, dir_path)
        isdir(i) == is_dir(made.fs, Append(dir_path, i))
    IN  IF made.err # "" \/ ~is_dir(made.fs, dir_path)
        THEN [fs |-> made.fs, folders |-> <<>>, files |-> <<>>]
        ELSE [fs |-> made.fs,
              folders |-> SelectSeq(items, isdir),
              files |-> SelectSeq(items, LAMBDA i : ~isdir(i))]

----------------------------------------------------------------------------
(* python/utils.py: archives *)

\* an archive as file content: its format and its members, each a name and bytes
Arch(fmt, members) == [fmt |-> fmt, bytes |-> "", members |-> members]
Member(name, data) == [name |-> name, data |-> data]

\* is_7z_available(): the 7z binary can be started
is_7z_available == has7z

\* os.walk(top) restricted to the files it reports, directory by directory: the
\* files of top, then the walk of each subdirectory; nothing for a top that is no
\* directory
RECURSIVE walk_dirs(_, _)
RECURSIVE walk_files(_, _)
walk_dirs(f, dirs) ==
    IF dirs = <<>> THEN <<>>
    ELSE walk_files(f, Head(dirs)) \o walk_dirs(f, Tail(dirs))

walk_files(f, top) ==
    IF ~IsDirAt(f, top) THEN <<>>
    ELSE SetToSeq({q \in Children(f, top) : IsFileAt(f, q)})
         \o walk_dirs(f, SetToSeq({q \in Children(f, top) : IsDirAt(f, q)}))

\* arcname with the directory part lost: every member named by its file name alone
arcname_basename(file_path, directory) == Name(file_path)

\* file_path.relative_to(directory) as zipfile stores it: the segments below the
\* directory joined by "/"
arcname(file_path, directory) ==
    Join(SubSeq(file_path, Len(directory) + 1, Len(file_path)), Slash)

\* the members zipfile writes for a directory: one per file of the walk, named by its
\* path relative to the directory
zip_members(f, directory) ==
    LET top   == Real(f, directory)
        found == walk_files(f, top)
    IN  [i \in DOMAIN found |-> Member(arcname(found[i], top), f[found[i]].content.bytes)]

\* zip_directory(directory): the zip archive of the directory, in memory
zip_directory(f, directory) == Arch("zip", zip_members(f, directory))

\* the 7z command line "7z a <archive> <directory>" stores every file under the
\* directory's own name; the archive type follows the archive's extension
sevenzip_members(f, directory) ==
    LET top   == Real(f, directory)
        found == walk_files(f, top)
    IN  [i \in DOMAIN found |->
            Member(arcname(found[i], Parent(top)), f[found[i]].content.bytes)]

\* Path.suffix: from the last "." of the name, unless it is first or last
Suffix(p) ==
    LET name == Name(p)
        i    == LastIndex(name, Dot)
    IN  IF 1 < i /\ i < Len(name) THEN SubSeq(name, i, Len(name)) ELSE <<>>

Ext7z  == <<".", "7", "z">>
ExtZip == <<".", "z", "i", "p">>

sevenzip_format(output_file) == IF StrLower(Suffix(output_file)) = ExtZip THEN "zip" ELSE "7z"

\* compress_directory(directory, output_file): 7z when the binary is there and its
\* run succeeds (tool_ok), else a DEFLATE zip; a failure of the zip writer (io_ok
\* false) is raised
compress_directory(f, directory, output_file, tool_ok, io_ok) ==
    IF is_7z_available /\ tool_ok
    THEN LET w == WriteFile(f, output_file,
                            Arch(sevenzip_format(output_file), sevenzip_members(f, directory)))
         IN  [fs |-> w.fs, file |-> output_file,
              mimetype |-> "application/x-7z-compressed", err |-> w.err]
    ELSE LET w == IF io_ok THEN WriteFile(f, output_file, zip_directory(f, directory))
                  ELSE Err(f, "OSError")
         IN  [fs |-> w.fs, file |-> output_file,
              mimetype |-> "application/zip", err |-> w.err]

\* the parts of a member name that extraction keeps: zipfile drops empty, "." and
\* ".." parts, which makes an absolute or climbing name a name inside the target
member_parts(name) ==
    SelectSeq(Split(name, Slash), LAMBDA x : x # <<>> /\ x # <<".">> /\ x # DotDot)

\* ZipFile.extractall(extract_to): member by member, the upper directories are made
\* and the bytes written; the first failing member ends it, the earlier ones stay
RECURSIVE extractall(_, _, _)
extractall(f, members, extract_to) ==
    IF members = <<>> THEN Ok(f)
    ELSE LET targetpath == extract_to \o member_parts(Head(members).name)
             upper      == IF exists(f, Parent(targetpath)) THEN Ok(f)
                           ELSE makedirs(f, Parent(targetpath))
             written    == WriteFile(upper.fs, targetpath, Raw(Head(members).data))
         IN  IF upper.err # "" THEN Err(upper.fs, "OSError")
             ELSE IF written.err # "" THEN Err(written.fs, "OSError")
             ELSE extractall(written.fs, Tail(members), extract_to)

\* extract_archive(archive_path, extract_to): "7z x" for a .7z name when the binary
\* is there, zipfile otherwise
extract_archive(f, archive_path, extract_to, tool_ok) ==
    LET archive == f[Real(f, archive_path)].content
    IN  IF StrLower(Suffix(archive_path)) = Ext7z /\ is_7z_available
        THEN IF ~tool_ok \/ archive.fmt = "raw" THEN Err(f, "CalledProcessError")
             ELSE LET r == extractall(f, archive.members, extract_to)
                  IN  IF r.err = "" THEN r ELSE Err(r.fs, "CalledProcessError")
        ELSE IF archive.fmt # "zip" THEN Err(f, "BadZipFile")
        ELSE extractall(f, archive.members, extract_to)

\* Path.resolve() without symbolic links: "." and ".." are taken out lexically
RECURSIVE resolve(_, _)
resolve(done, rest) ==
    IF rest = <<>> THEN done
    ELSE IF Head(rest) = DotDot THEN resolve(Parent(done), Tail(rest))
    ELSE resolve(Append(done, Head(rest)), Tail(rest))

\* the check of unzip_file on one member: (extract_to / member).resolve() is
\* extract_to.resolve() or below it
member_inside(member, extract_to) ==
    IsPrefix(resolve(<<>>, extract_to), resolve(<<>>, PathJoin(extract_to, member.name)))

\* unzip_file(zip_stream, extract_to): every member name is checked before
\* extractall.  utils.py imports neither abort nor HTTPException, so each of its
\* error paths ends in a NameError
unzip_file(f, archive, extract_to) ==
    IF archive.fmt # "zip" THEN Err(f, "NameError")
    ELSE IF \E i \in DOMAIN archive.members : ~member_inside(archive.members[i], extract_to)
    THEN Err(f, "NameError")
    ELSE LET r == extractall(f, archive.members, extract_to)
         IN  IF r.err = "" THEN r ELSE Err(r.fs, "NameError")

----------------------------------------------------------------------------
(* python/routes.py: FileSystemView *)

\* get(req_path): a regular file is sent, anything else is listed
get_result(f, req_path) ==
    LET abs_path == PathJoin(OUTPUT_DIR, req_path)
    IN  IF is_file(f, abs_path)
        THEN [fs |-> f,
              ans |-> [Answer("get", req_path, <<>>, 200, "") EXCEPT
                          !.resp = f[Real(f, abs_path)].content]]
        ELSE LET contents == list_directory(f, req_path)
             IN  [fs |-> contents.fs,
                  ans |-> [Answer("get", req_path, <<>>, 200, "") EXCEPT
                              !.folders = contents.folders,
                              !.files = contents.files]]

\* remove_file of python/file_manager.py, which deletes regular files only and
\* answers 404 for anything else
remove_files_only(f, req_path, file_to_remove) ==
    LET abs_path == PathJoin(OUTPUT_DIR, file_to_remove)
        ans(status) == Answer("remove", req_path, <<file_to_remove>>, status, "")
    IN  IF file_to_remove = <<>> THEN [fs |-> f, ans |-> ans(400)]
        ELSE IF ~is_file(f, abs_path) THEN [fs |-> f, ans |-> ans(404)]
        ELSE [fs |-> unlink(f, abs_path).fs, ans |-> ans(200)]

\* remove_file(req_path) with the form field file_path
remove_result(f, req_path, file_to_remove) ==
    LET abs_path == PathJoin(OUTPUT_DIR, LStrip(file_to_remove, {Slash}))
        ans(status) == Answer("remove", req_path, <<file_to_remove>>, status, "")
    IN  IF file_to_remove = <<>> THEN [fs |-> f, ans |-> ans(400)]
        ELSE IF ~exists(f, abs_path) THEN [fs |-> f, ans |-> ans(404)]
        ELSE LET r == IF is_file(f, abs_path) THEN unlink(f, abs_path)
                      ELSE IF is_dir(f, abs_path) THEN rmtree(f, abs_path)
                      ELSE Ok(f)
             IN  [fs |-> r.fs, ans |-> ans(IF r.err = "" THEN 200 ELSE 500)]

\* the loop of upload_file over files[]: each named file is sanitised, checked
\* against the extension table and saved as a child of abs_path; a failing save
\* ends the request
RECURSIVE upload_file_loop(_, _, _, _)
upload_file_loop(f, abs_path, files, wrote) ==
    IF files = <<>> THEN [fs |-> f, wrote |-> wrote, err |-> ""]
    ELSE LET file      == Head(files)
             filename  == secure_filename(file.filename)
             file_path == PathJoin(abs_path, filename)
         IN  IF file.filename # <<>> /\ allowed_file(filename)
             THEN LET saved == WriteFile(f, file_path, Raw(file.data))
                  IN  IF saved.err # ""
                      THEN [fs |-> saved.fs, wrote |-> wrote, err |-> saved.err]
                      ELSE upload_file_loop(saved.fs, abs_path, Tail(files),
                                            Append(wrote, Real(saved.fs, file_path)))
             ELSE upload_file_loop(f, abs_path, Tail(files), wrote)

\* upload_file(req_path) with the uploaded files[]
upload_file_result(f, req_path, files) ==
    LET abs_path == PathJoin(OUTPUT_DIR, req_path)
        names    == [i \in DOMAIN files |-> files[i].filename]
        ans(status) == Answer("upload_file", req_path, names, status, "")
    IN  IF ~is_dir(f, abs_path) THEN [fs |-> f, ans |-> ans(400)]
        ELSE LET done == upload_file_loop(f, abs_path, files, <<>>)
             IN  [fs |-> done.fs,
                  ans |-> [ans(IF done.err # "" THEN 500
                               ELSE IF done.wrote = <<>> THEN 400 ELSE 200)
                           EXCEPT !.wrote = Range(done.wrote)]]

\* Path.relative_to(base) succeeds when base is a lexical prefix
relative_to_ok(p, base) == IsPrefix(base, p)

\* the first loop of upload_folder: the parent directories of every named file are
\* made, then an allowed file is saved under its relative path
RECURSIVE upload_folder_files(_, _, _, _)
upload_folder_files(f, abs_path, files, wrote) ==
    IF files = <<>> THEN [fs |-> f, wrote |-> wrote, err |-> ""]
    ELSE LET file      == Head(files)
             file_path == PathJoin(abs_path, file.filename)
             made      == makedirs(f, Parent(file_path))
         IN  IF file.filename = <<>>
             THEN upload_folder_files(f, abs_path, Tail(files), wrote)
             ELSE IF made.err # ""
             THEN [fs |-> made.fs, wrote |-> wrote, err |-> made.err]
             ELSE IF ~allowed_file(file.filename)
             THEN upload_folder_files(made.fs, abs_path, Tail(files), wrote)
             ELSE LET saved == WriteFile(made.fs, file_path, Raw(file.data))
                  IN  IF saved.err # ""
                      THEN [fs |-> saved.fs, wrote |-> wrote, err |-> saved.err]
                      ELSE IF ~relative_to_ok(file_path, abs_path)
                      THEN [fs |-> saved.fs,
                            wrote |-> Append(wrote, Real(saved.fs, file_path)),
                            err |-> "ValueError"]
                      ELSE upload_folder_files(saved.fs, abs_path, Tail(files),
                                               Append(wrote, Real(saved.fs, file_path)))

\* the second loop of upload_folder: every name of folders[] is made a directory
RECURSIVE upload_folder_folders(_, _, _, _)
upload_folder_folders(f, abs_path, folders, made) ==
    IF folders = <<>> THEN [fs |-> f, wrote |-> made, err |-> ""]
    ELSE LET folder_path == PathJoin(abs_path, Head(folders))
             r           == makedirs(f, folder_path)
         IN  IF r.err # "" THEN [fs |-> r.fs, wrote |-> made, err |-> r.err]
             ELSE IF ~relative_to_ok(folder_path, abs_path)
             THEN [fs |-> r.fs, wrote |-> made, err |-> "ValueError"]
             ELSE upload_folder_folders(r.fs, abs_path, Tail(folders),
                                        Append(made, Real(r.fs, folder_path)))

\* upload_folder(req_path) with the uploaded files[] and the form field folders[]
upload_folder_result(f, req_path, files, folders) ==
    LET abs_path == PathJoin(OUTPUT_DIR, req_path)
        names    == [i \in DOMAIN files |-> files[i].filename] \o folders
        ans(status) == Answer("upload_folder", req_path, names, status, "")
    IN  IF ~is_dir(f, abs_path) THEN [fs |-> f, ans |-> ans(400)]
        ELSE LET saved == upload_folder_files(f, abs_path, files, <<>>)
                 dirs  == IF saved.err # "" THEN saved
                          ELSE upload_folder_folders(saved.fs, abs_path, folders, <<>>)
             IN  [fs |-> dirs.fs,
                  ans |-> [ans(IF dirs.err # "" THEN 500
                               ELSE IF saved.wrote = <<>> /\ dirs.wrote = <<>> THEN 400
                               ELSE 200)
                           EXCEPT !.wrote = Range(saved.wrote)]]

\* create_folder(req_path) with the form field folder_name: any non-empty name is
\* sanitised and os.makedirs makes abs_path / sanitised name; the answer is always a
\* redirect, with a flash message telling the outcome
create_folder_result(f, req_path, folder_name) ==
    LET abs_path        == PathJoin(OUTPUT_DIR, req_path)
        new_folder_path == PathJoin(abs_path, secure_filename(folder_name))
        ans(flash)      == Answer("create_folder", req_path, <<folder_name>>, 302, flash)
    IN  IF folder_name # <<>>
        THEN LET r == makedirs(f, new_folder_path)
             IN  [fs |-> r.fs,
                  ans |-> ans(IF r.err = "" THEN "created" ELSE "error")]
        ELSE [fs |-> f, ans |-> ans("empty")]

\* tempfile.mkdtemp(dir=d) / NamedTemporaryFile: a name nothing in d carries yet
TmpNames == <<TmpName, TmpName \o TmpName>>

fresh_name(f, d, suffix) ==
    LET free == {i \in DOMAIN TmpNames : Append(d, TmpNames[i] \o suffix) \notin DOMAIN f}
    IN  TmpNames[CHOOSE i \in free : \A j \in free : i <= j] \o suffix

\* the finally block of upload_zip: os.walk(temp_dir, topdown=False) removes every
\* file and then every directory below temp_dir, deepest first
RECURSIVE walk_remove(_, _)
walk_remove(f, top) ==
    LET kids == Children(f, top)
    IN  IF kids = {} THEN f
        ELSE LET k == CHOOSE k \in kids : TRUE
             IN  walk_remove(IF IsDirAt(f, k) THEN rmdir(walk_remove(f, k), k).fs
                             ELSE unlink(f, k).fs,
                             top)

\* cleanup that forgets the contents: os.rmdir alone, which an archive left in the
\* staging directory defeats
cleanup_rmdir_only(f, temp_dir) == rmdir(f, temp_dir).fs

\* ... and os.rmdir(temp_dir) after it
cleanup(f, temp_dir) == rmdir(walk_remove(f, temp_dir), temp_dir).fs

\* upload_zip(req_path) with the uploaded part archive_file (part: whether the request
\* carries it; filename and archive: its declared name and content).  fault names the
\* step the host fails, "none" for no failure: "mkdtemp", "save", "tool" (the 7z run)
upload_zip_result(f, req_path, part, filename, archive, fault) ==
    LET abs_path == PathJoin(OUTPUT_DIR, req_path)
        ans(flash) == [Answer("upload_zip", req_path, <<filename>>, 302, flash) EXCEPT
                          !.body = archive, !.fault = fault]
    IN  IF ~is_dir(f, abs_path) THEN [fs |-> f, ans |-> ans("not_a_directory")]
        ELSE IF ~part THEN [fs |-> f, ans |-> ans("no_part")]
        ELSE IF filename = <<>> THEN [fs |-> f, ans |-> ans("no_name")]
        ELSE IF EndsWith(StrLower(filename), Ext7z) /\ ~is_7z_available
        THEN [fs |-> f, ans |-> ans("no_7z")]
        ELSE IF fault = "mkdtemp" THEN [fs |-> f, ans |-> ans("error")]
        ELSE
        LET temp_dir == Append(Real(f, abs_path), fresh_name(f, Real(f, abs_path), <<>>))
            staged   == With(f, temp_dir, DirNode)
            temp_archive_path == PathJoin(temp_dir, secure_filename(filename))
            saved    == IF fault = "save" THEN Err(staged, "OSError")
                        ELSE WriteFile(staged, temp_archive_path, archive)
            extracted == extract_archive(saved.fs, temp_archive_path, abs_path,
                                         fault # "tool")
            flash    == IF saved.err # "" THEN "error"
                        ELSE IF extracted.err = "" THEN "success"
                        ELSE IF extracted.err \in {"CalledProcessError", "BadZipFile"}
                        THEN "extract_failed"
                        ELSE "error"
            after    == IF saved.err # "" THEN saved.fs ELSE extracted.fs
        IN  [fs |-> cleanup(after, temp_dir),
             ans |-> [ans(flash) EXCEPT !.temp = {temp_dir}]]

\* send_file(path): the file is opened and its content becomes the response body
send_file(f, path) ==
    IF is_file(f, path) THEN [resp |-> f[Real(f, path)].content, err |-> ""]
    ELSE [resp |-> NoResp, err |-> "FileNotFoundError"]

\* download_folder without its finally block
download_folder_no_finally(f, temp_file) == f

\* the finally block of download_folder: os.unlink(temp_file.name)
download_folder_finally(f, temp_file) == unlink(f, temp_file).fs

\* download_folder(req_path) after its is_dir test: the temporary file, the
\* compression, the response and the finally block
download_folder_body(f, req_path, fault) ==
    LET abs_path == PathJoin(OUTPUT_DIR, req_path)
        ans(status, flash) == [Answer("download_folder", req_path, <<>>, status, flash)
                                 EXCEPT !.fault = fault]
    IN  IF fault = "mktemp" THEN [fs |-> f, ans |-> ans(302, "error")]
        ELSE
        LET archive_name == Name(abs_path) \o ExtZip
            temp_file    == Append(TMPDIR, fresh_name(f, TMPDIR, ExtZip))
            created      == With(f, temp_file, FileNode(Raw("")))
            packed       == compress_directory(created, abs_path, temp_file,
                                               fault # "tool", fault # "compress")
            sent         == IF fault = "send" THEN [resp |-> NoResp, err |-> "OSError"]
                            ELSE send_file(packed.fs, packed.file)
            unlinked     == download_folder_finally(packed.fs, temp_file)
        IN  IF packed.err # "" \/ sent.err # ""
            THEN [fs |-> unlinked,
                  ans |-> [ans(302, "error") EXCEPT !.temp = {temp_file}]]
            ELSE [fs |-> unlinked,
                  ans |-> [ans(200, "") EXCEPT
                              !.temp = {temp_file}, !.resp = sent.resp,
                              !.mimetype = packed.mimetype,
                              !.download_name = archive_name]]

\* download_folder(req_path).  fault names the step the host fails, "none" for no
\* failure: "mktemp", "tool" (the 7z run), "compress" (the zip writer), "send"
download_folder_result(f, req_path, fault) ==
    IF ~is_dir(f, PathJoin(OUTPUT_DIR, req_path))
    THEN [fs |-> f,
          ans |-> [Answer("download_folder", req_path, <<>>, 302, "not_a_directory")
                      EXCEPT !.fault = fault]]
    ELSE download_folder_body(f, req_path, fault)

----------------------------------------------------------------------------
(* The requests a client may send *)

\* the longest files[] list of one upload request
MaxFiles == 1

\* the most files and directories the host holds (its disk is finite)
MaxNodes == 6

\* the bytes of an uploaded file
UploadData == {"p"}

\* URL paths: the root, a subdirectory, and ../e, which climbs out of the root
ReqPaths == { <<>>, <<"a">>, <<".", ".", "/", "e">> }

\* declared names of uploaded files: a.c, ../a.c, .c, a.x and none
UploadNames == { <<"a", ".", "c">>, <<".", ".", "/", "a", ".", "c">>,
                 <<".", "c">>, <<"a", ".", "x">>, <<>> }

\* relative names a folder picker sends: a/a.c, ../a.c, a/a.x
TreeNames == { <<"a", "/", "a", ".", "c">>, <<".", ".", "/", "a", ".", "c">>,
               <<"a", "/", "a", ".", "x">> }

\* folders[] lists: none, a, ../a
FolderLists == { <<>>, << <<"a">> >>, << <<".", ".", "/", "a">> >> }

\* folder_name fields: none, a, ../a, a blank, ..
FolderNames == { <<>>, <<"a">>, <<".", ".", "/", "a">>, <<" ">>, DotDot }

\* file_path fields: none, a, a.c, a/a.c, ../e, ../a.c, /
RemoveNames == { <<>>, <<"a">>, <<"a", ".", "c">>, <<"a", "/", "a", ".", "c">>,
                 <<".", ".", "/", "e">>, <<".", ".", "/", "a", ".", "c">>, <<Slash>> }

Uploads(names) ==
    UNION {[1..n -> [filename : names, data : UploadData]] : n \in 0..MaxFiles}

NameZip == <<"z", ".", "z", "i", "p">>
Name7z  == <<"z", ".", "7", "z">>

\* archives a client may upload: a plain one, one whose second member climbs out,
\* one with an absolute member, one with a member in a subdirectory, one whose member
\* lands in the staging directory, and bytes that are no archive
ZipPlain   == Arch("zip", << Member(<<"a", ".", "c">>, "p") >>)
ZipSlip    == Arch("zip", << Member(<<"a", ".", "c">>, "p"),
                            Member(<<".", ".", "/", "b", ".", "c">>, "q") >>)
ZipAbs     == Arch("zip", << Member(<<"/", "e">>, "q") >>)
ZipNested  == Arch("zip", << Member(<<"a", "/", "a", ".", "c">>, "q") >>)
ZipStaging == Arch("zip", << Member(TmpName \o <<"/", "d", "/", "a", ".", "c">>, "p") >>)
SevenPlain == Arch("7z", << Member(<<"a", ".", "c">>, "q") >>)
NotArchive == Raw("g")

\* upload_zip requests: the declared name, the content and the host's failure
ZipCases == {
    <<TRUE, NameZip, ZipPlain, "none">>, <<TRUE, NameZip, ZipSlip, "none">>,
    <<TRUE, NameZip, ZipAbs, "none">>, <<TRUE, NameZip, ZipNested, "none">>,
    <<TRUE, NameZip, ZipStaging, "none">>, <<TRUE, NameZip, NotArchive, "none">>,
    <<TRUE, NameZip, ZipPlain, "mkdtemp">>, <<TRUE, NameZip, ZipPlain, "save">>,
    <<TRUE, Name7z, SevenPlain, "none">>, <<TRUE, Name7z, SevenPlain, "tool">>,
    <<TRUE, Name7z, ZipPlain, "none">>, <<TRUE, Name7z, NotArchive, "none">>,
    <<TRUE, DotDot, ZipPlain, "none">>, <<TRUE, <<>>, ZipPlain, "none">>,
    <<FALSE, <<>>, NotArchive, "none">> }

DownloadFaults == {"none", "mktemp", "tool", "compress", "send"}

----------------------------------------------------------------------------
(* The server *)

\* the host at start: /, the storage root /u, the temporary directory /t and a file
\* /e that is nobody's upload
InitFs ==
    LET dirs == { <<>>, OUTPUT_DIR, TMPDIR }
        e    == << <<"e">> >>
    IN  [q \in dirs \cup {e} |-> IF q = e THEN FileNode(Raw("s")) ELSE DirNode]

\* no request is being answered
Idle == Answer("idle", <<>>, <<>>, 0, "")

\* no request is split into steps: each is handled from start to answer
NoThreads == <<>>

Init ==
    /\ fs = InitFs
    /\ pre = InitFs
    /\ has7z \in BOOLEAN
    /\ last = Idle
    /\ threads = NoThreads

\* one request is handled from its start to its answer
Serve(r) ==
    /\ last = Idle
    /\ Cardinality(DOMAIN r.fs) <= MaxNodes
    /\ fs' = r.fs
    /\ pre' = fs
    /\ last' = r.ans
    /\ UNCHANGED <<has7z, threads>>

Get == \E req_path \in ReqPaths : Serve(get_result(fs, req_path))

UploadFile ==
    \E req_path \in ReqPaths, files \in Uploads(UploadNames) :
        Serve(upload_file_result(fs, req_path, files))

UploadFolder ==
    \E req_path \in ReqPaths, files \in Uploads(TreeNames), folders \in FolderLists :
        Serve(upload_folder_result(fs, req_path, files, folders))

CreateFolder ==
    \E req_path \in ReqPaths, folder_name \in FolderNames :
        Serve(create_folder_result(fs, req_path, folder_name))

UploadZip ==
    \E req_path \in ReqPaths, c \in ZipCases :
        Serve(upload_zip_result(fs, req_path, c[1], c[2], c[3], c[4]))

DownloadFolder ==
    \E req_path \in ReqPaths, fault \in DownloadFaults :
        Serve(download_folder_result(fs, req_path, fault))

Remove ==
    \E req_path \in ReqPaths, file_path \in RemoveNames :
        Serve(remove_result(fs, req_path, file_path))

\* the answer has gone to the client and the server waits for the next request
Respond ==
    /\ last # Idle
    /\ last' = Idle
    /\ pre' = fs
    /\ UNCHANGED <<fs, has7z, threads>>

\* post(req_path) dispatches on the form field action; get serves GET
Next ==
    \/ Get
    \/ UploadFile
    \/ UploadFolder
    \/ CreateFolder
    \/ UploadZip
    \/ DownloadFolder
    \/ Remove
    \/ Respond

Spec == Init /\ [][Next]_vars

----------------------------------------------------------------------------
(* The helpers of python/utils.py, applied to directory trees *)

\* secure_path with the containment test done on the path strings
secure_path_by_string(relative_path) ==
    LET root   == resolve(<<>>, OUTPUT_DIR)
        target == resolve(<<>>, PathJoin(OUTPUT_DIR, relative_path))
    IN  IF StartsWith(PathStr(target), PathStr(root))
        THEN [status |-> 200, path |-> target, description |-> ""]
        ELSE [status |-> 403, path |-> <<>>, description |-> "Unauthorized access."]

\* secure_path(relative_path), the resolver test_utils.py imports from python.utils:
\* the joined path is canonicalised and must be the upload folder or lie below it,
\* segment by segment; otherwise abort(403, "Unauthorized access.")
secure_path(relative_path) ==
    LET root   == resolve(<<>>, OUTPUT_DIR)
        target == resolve(<<>>, PathJoin(OUTPUT_DIR, relative_path))
    IN  IF IsPrefix(root, target)
        THEN [status |-> 200, path |-> target, description |-> ""]
        ELSE [status |-> 403, path |-> <<>>, description |-> "Unauthorized access."]

\* the files a tree may hold below the storage root: a.c, b.c, d/a.c, d/d/b.c
TreeFiles == { OUTPUT_DIR \o << <<"a", ".", "c">> >>,
               OUTPUT_DIR \o << <<"b", ".", "c">> >>,
               OUTPUT_DIR \o << <<"d">>, <<"a", ".", "c">> >>,
               OUTPUT_DIR \o << <<"d">>, <<"d">>, <<"b", ".", "c">> >> }

\* an empty directory a tree may hold: g
TreeEmptyDir == OUTPUT_DIR \o << <<"g">> >>

TreeBytes == {"p", "q"}

Ancestors(p) == {SubSeq(p, 1, n) : n \in 0..(Len(p) - 1)}

\* the filesystem holding the files of the function data, with their directories
TreeOf(data, withEmpty) ==
    LET files == DOMAIN data
        dirs  == {<<>>, OUTPUT_DIR, TMPDIR} \cup UNION {Ancestors(q) : q \in files}
                 \cup (IF withEmpty THEN {TreeEmptyDir} ELSE {})
    IN  [q \in files \cup dirs |-> IF q \in files THEN FileNode(Raw(data[q])) ELSE DirNode]

Trees ==
    {TreeOf(data, e) : data \in UNION {[S -> TreeBytes] : S \in SUBSET TreeFiles},
                       e \in BOOLEAN}

\* relative paths given to the resolver: "", ".", a, a/../b, a/b, .., ../e, ../ux,
\* ../u, ../u/a, a/../../e, /e, /u/a
RelPaths == { <<>>, <<".">>, <<"a">>, <<"a", "/", ".", ".", "/", "b">>,
              <<"a", "/", "b">>, DotDot, <<".", ".", "/", "e">>,
              <<".", ".", "/", "u", "x">>, <<".", ".", "/", "u">>,
              <<".", ".", "/", "u", "/", "a">>,
              <<"a", "/", ".", ".", "/", ".", ".", "/", "e">>,
              <<"/", "e">>, <<"/", "u", "/", "a">> }

\* the directories that are compressed: the root and its subdirectory d
PackDirs == { OUTPUT_DIR, OUTPUT_DIR \o << <<"d">> >> }

\* where an artifact is written: /t/o.zip or /t/o.7z
PackFiles == { TMPDIR \o << <<"o", ".", "z", "i", "p">> >>,
               TMPDIR \o << <<"o", ".", "7", "z">> >> }

\* the empty directory an artifact is extracted into: /x
UnpackDir == << <<"x">> >>

\* archives given to unzip_file
UnzipArchives == {ZipPlain, ZipSlip, ZipAbs, ZipNested, NotArchive}

InitUtils ==
    /\ fs \in Trees
    /\ pre = fs
    /\ has7z \in BOOLEAN
    /\ last = Idle
    /\ threads = NoThreads

Apply(f, ans) ==
    /\ last = Idle
    /\ fs' = f
    /\ pre' = fs
    /\ last' = ans
    /\ UNCHANGED <<has7z, threads>>

SecurePath ==
    \E relative_path \in RelPaths :
        LET r == secure_path(relative_path)
        IN  Apply(fs, [Answer("secure_path", relative_path, <<>>, r.status, "") EXCEPT
                          !.path = r.path, !.err = r.description])

ZipDirectory ==
    \E directory \in PackDirs :
        /\ is_dir(fs, directory)
        /\ Apply(fs, [Answer("zip_directory", <<>>, <<>>, 0, "") EXCEPT
                         !.dirs = <<directory>>,
                         !.resp = zip_directory(fs, directory)])

\* compress_directory(directory, output_file), then extract_archive of the artifact
\* into a new empty directory
RoundTrip ==
    \E directory \in PackDirs, output_file \in PackFiles, tool_ok \in BOOLEAN :
        /\ is_dir(fs, directory)
        /\ LET packed   == compress_directory(fs, directory, output_file, tool_ok, TRUE)
               unpacked == extract_archive(With(packed.fs, UnpackDir, DirNode),
                                           packed.file, UnpackDir, TRUE)
           IN  Apply(unpacked.fs,
                     [Answer("round_trip", <<>>, <<>>, 0, "") EXCEPT
                         !.dirs = <<directory, UnpackDir>>,
                         !.path = output_file,
                         !.fault = IF tool_ok THEN "none" ELSE "tool",
                         !.resp = packed.fs[packed.file].content,
                         !.mimetype = packed.mimetype,
                         !.err = IF packed.err # "" THEN packed.err ELSE unpacked.err])

UnzipFile ==
    \E archive \in UnzipArchives, extract_to \in PackDirs :
        /\ is_dir(fs, extract_to)
        /\ LET r == unzip_file(fs, archive, extract_to)
           IN  Apply(r.fs, [Answer("unzip_file", <<>>, <<>>, 0, "") EXCEPT
                               !.dirs = <<extract_to>>, !.body = archive,
                               !.err = r.err])

\* names given to allowed_file: test.pdf, image.JPG, image.jpg, test.exe,
\* script.sh, README, pdf, a., a.b.c, a.c.x, .c, a.C, a.Py, x.7Z, pdf.x, a.pdf., ""
CheckNames == {
    <<"t", "e", "s", "t", ".", "p", "d", "f">>,
    <<"i", "m", "a", "g", "e", ".", "J", "P", "G">>,
    <<"i", "m", "a", "g", "e", ".", "j", "p", "g">>,
    <<"t", "e", "s", "t", ".", "e", "x", "e">>,
    <<"s", "c", "r", "i", "p", "t", ".", "s", "h">>,
    <<"R", "E", "A", "D", "M", "E">>,
    <<"p", "d", "f">>,
    <<"a", ".">>,
    <<"a", ".", "b", ".", "c">>,
    <<"a", ".", "c", ".", "x">>,
    <<".", "c">>,
    <<"a", ".", "C">>,
    <<"a", ".", "P", "y">>,
    <<"x", ".", "7", "Z">>,
    <<"p", "d", "f", ".", "x">>,
    <<"a", ".", "p", "d", "f", ".">>,
    <<>> }

AllowedFile ==
    \E filename \in CheckNames :
        Apply(fs, Answer("allowed_file", filename, <<>>, 0,
                         IF allowed_file(filename) THEN "True" ELSE "False"))

\* directories given to list_directory: "", d, d/d, g, a.c (a file when it is
\* there), and the missing h and h/k
ListPaths == { <<>>, <<"d">>, <<"d", "/", "d">>, <<"g">>, <<"a", ".", "c">>,
               <<"h">>, <<"h", "/", "k">> }

ListDirectory ==
    \E path \in ListPaths :
        LET contents == list_directory(fs, path)
        IN  Apply(contents.fs, [Answer("list_directory", path, <<>>, 0, "") EXCEPT
                                  !.folders = contents.folders,
                                  !.files = contents.files])

NextUtils ==
    \/ ListDirectory
    \/ SecurePath
    \/ ZipDirectory
    \/ RoundTrip
    \/ UnzipFile
    \/ AllowedFile

SpecUtils == InitUtils /\ [][NextUtils]_vars

----------------------------------------------------------------------------
(* Two requests handled at the same time, step by step.  A step is one test of the
   path or the one call that acts on it; rmtree, the listing and the compression
   with its response are each taken as one step. *)

\* the paths raced on: the file a.c and the directory d
RacePaths == { <<"a", ".", "c">>, <<"d">> }

\* remove, GET and download_folder of python/routes.py; download_file of
\* python/file_manager.py, which no route calls
RaceOps == {"remove", "get", "download_folder", "download_file"}

\* the storage root holding a.c and d/a.c
RaceTree ==
    TreeOf([q \in { OUTPUT_DIR \o << <<"a", ".", "c">> >>,
                    OUTPUT_DIR \o << <<"d">>, <<"a", ".", "c">> >> } |-> "p"], FALSE)

Thread(op, path) == [op |-> op, path |-> path, pc |-> "start", status |-> 0]

\* a remove and a second request for the same existing path
InitRace ==
    /\ fs = RaceTree
    /\ pre = RaceTree
    /\ has7z \in BOOLEAN
    /\ last = Idle
    /\ \E path \in RacePaths, op \in RaceOps :
          threads = << Thread("remove", path), Thread(op, path) >>

At(t, op, pc) == threads[t].op = op /\ threads[t].pc = pc

\* the path a request acts on: remove strips the leading "/" of its file_path
AbsPath(t) ==
    IF threads[t].op = "remove"
    THEN PathJoin(OUTPUT_DIR, LStrip(threads[t].path, {Slash}))
    ELSE PathJoin(OUTPUT_DIR, threads[t].path)

Goto(t, pc) ==
    /\ threads' = [threads EXCEPT ![t].pc = pc]
    /\ UNCHANGED <<pre, has7z, last>>

Finish(t, status) ==
    /\ threads' = [threads EXCEPT ![t].pc = "done", ![t].status = status]
    /\ UNCHANGED <<pre, has7z, last>>

\* remove_file: if not abs_path.exists(): 404
RemoveExists(t) ==
    /\ At(t, "remove", "start")
    /\ IF exists(fs, AbsPath(t)) THEN Goto(t, "is_file") ELSE Finish(t, 404)
    /\ UNCHANGED fs

\* remove_file: if abs_path.is_file()
RemoveIsFile(t) ==
    /\ At(t, "remove", "is_file")
    /\ IF is_file(fs, AbsPath(t)) THEN Goto(t, "unlink") ELSE Goto(t, "is_dir")
    /\ UNCHANGED fs

\* remove_file: abs_path.unlink(); an error other than PermissionError gives 500
RemoveUnlink(t) ==
    /\ At(t, "remove", "unlink")
    /\ LET r == unlink(fs, AbsPath(t))
       IN  /\ fs' = r.fs
           /\ Finish(t, IF r.err = "" THEN 200 ELSE 500)

\* remove_file: elif abs_path.is_dir(); a path that is neither is reported removed
RemoveIsDir(t) ==
    /\ At(t, "remove", "is_dir")
    /\ IF is_dir(fs, AbsPath(t)) THEN Goto(t, "rmtree") ELSE Finish(t, 200)
    /\ UNCHANGED fs

\* remove_file: shutil.rmtree(abs_path)
RemoveRmtree(t) ==
    /\ At(t, "remove", "rmtree")
    /\ LET r == rmtree(fs, AbsPath(t))
       IN  /\ fs' = r.fs
           /\ Finish(t, IF r.err = "" THEN 200 ELSE 500)

\* get: if abs_path.is_file()
GetIsFile(t) ==
    /\ At(t, "get", "start")
    /\ IF is_file(fs, AbsPath(t)) THEN Goto(t, "send_file") ELSE Goto(t, "list_directory")
    /\ UNCHANGED fs

\* get: send_file(abs_path); its exception is flashed and answered with a redirect
GetSendFile(t) ==
    /\ At(t, "get", "send_file")
    /\ Finish(t, IF send_file(fs, AbsPath(t)).err = "" THEN 200 ELSE 302)
    /\ UNCHANGED fs

\* get: list_directory(req_path) and the rendered page
GetListDirectory(t) ==
    /\ At(t, "get", "list_directory")
    /\ fs' = list_directory(fs, threads[t].path).fs
    /\ Finish(t, 200)

\* download_folder: if not abs_path.is_dir(): flash and redirect
DownloadFolderIsDir(t) ==
    /\ At(t, "download_folder", "start")
    /\ IF is_dir(fs, AbsPath(t)) THEN Goto(t, "compress") ELSE Finish(t, 302)
    /\ UNCHANGED fs

\* download_folder from the temporary file to the finally block; the 7z run fails
\* on a directory that is gone, the zip writer then finds nothing to store
DownloadFolderCompress(t) ==
    /\ At(t, "download_folder", "compress")
    /\ LET r == download_folder_body(fs, threads[t].path,
                                     IF is_dir(fs, AbsPath(t)) THEN "none" ELSE "tool")
       IN  /\ fs' = r.fs
           /\ Finish(t, r.ans.status)

\* download_file: if target_path.is_file()
DownloadFileIsFile(t) ==
    /\ At(t, "download_file", "start")
    /\ IF is_file(fs, AbsPath(t)) THEN Goto(t, "send_from_directory") ELSE Goto(t, "is_dir")
    /\ UNCHANGED fs

\* download_file: send_from_directory; its NotFound is caught by the except clause
\* of download_file, which aborts with 500
DownloadFileSend(t) ==
    /\ At(t, "download_file", "send_from_directory")
    /\ Finish(t, IF is_file(fs, AbsPath(t)) THEN 200 ELSE 500)
    /\ UNCHANGED fs

\* download_file: elif target_path.is_dir(); else abort(404), which the except
\* clause catches and turns into abort(500)
DownloadFileIsDir(t) ==
    /\ At(t, "download_file", "is_dir")
    /\ IF is_dir(fs, AbsPath(t)) THEN Goto(t, "send_zip") ELSE Finish(t, 500)
    /\ UNCHANGED fs

\* download_file: send_zip(target_path, archive_name), a zip built in memory
DownloadFileSendZip(t) ==
    /\ At(t, "download_file", "send_zip")
    /\ Finish(t, 200)
    /\ UNCHANGED fs

NextRace ==
    \/ \E t \in DOMAIN threads : RemoveExists(t)
    \/ \E t \in DOMAIN threads : RemoveIsFile(t)
    \/ \E t \in DOMAIN threads : RemoveUnlink(t)
    \/ \E t \in DOMAIN threads : RemoveIsDir(t)
    \/ \E t \in DOMAIN threads : RemoveRmtree(t)
    \/ \E t \in DOMAIN threads : GetIsFile(t)
    \/ \E t \in DOMAIN threads : GetSendFile(t)
    \/ \E t \in DOMAIN threads : GetListDirectory(t)
    \/ \E t \in DOMAIN threads : DownloadFolderIsDir(t)
    \/ \E t \in DOMAIN threads : DownloadFolderCompress(t)
    \/ \E t \in DOMAIN threads : DownloadFileIsFile(t)
    \/ \E t \in DOMAIN threads : DownloadFileSend(t)
    \/ \E t \in DOMAIN threads : DownloadFileIsDir(t)
    \/ \E t \in DOMAIN threads : DownloadFileSendZip(t)

SpecRace == InitRace /\ [][NextRace]_vars

----------------------------------------------------------------------------
(* Claims *)

Changed == {q \in DOMAIN fs \cup DOMAIN pre :
                q \notin DOMAIN fs \/ q \notin DOMAIN pre \/ fs[q] # pre[q]}

InsideRoot(p) == IsPrefix(OUTPUT_DIR, p)

Requests == {"get", "upload_file", "upload_folder", "create_folder", "upload_zip",
             "download_folder", "remove"}

\* the directory a request's URL path names, as the kernel resolves it
DestDir == Real(pre, PathJoin(OUTPUT_DIR, last.req))

\* C1: after any request nothing outside the storage root has been created, written
\* or deleted, no file outside it has been sent, and a request whose URL path
\* resolves outside the root is answered 403 with the filesystem unchanged.
C1_NothingOutsideRoot ==
    last.op \in Requests =>
        /\ \A q \in Changed : InsideRoot(q)
        /\ (last.op = "get" /\ last.resp # NoResp => InsideRoot(DestDir))
        /\ (~InsideRoot(resolve(<<>>, PathJoin(OUTPUT_DIR, last.req)))
               => last.status = 403 /\ fs = pre)

Climbs(name) == IsAbsolute(name) \/ DotDot \in Range(Split(name, Slash))

\* C3: an uploaded archive with a member whose name resolves outside the extraction
\* target is refused as a whole: the request reports an error and leaves the
\* filesystem as it was.
C3_ZipSlipAllOrNothing ==
    /\ last.op = "upload_zip"
    /\ last.temp # {}
    /\ \E i \in DOMAIN last.body.members : Climbs(last.body.members[i].name)
    => /\ last.flash \in {"extract_failed", "error"}
       /\ fs = pre

\* C4: when an upload_zip request that made a staging directory has finished, the
\* staging directory and everything below it are gone.
C4_StagingRemoved ==
    last.op = "upload_zip" =>
        \A d \in last.temp : \A q \in DOMAIN fs : ~IsPrefix(d, q)

\* C4 witness: a request whose extraction failed after the staging directory was made
C4_ExtractionFailed ==
    /\ last.op = "upload_zip"
    /\ last.temp # {}
    /\ last.flash = "extract_failed"

\* C5: when a download_folder request that made a temporary artifact has finished,
\* the artifact file is gone, whether or not compressing and sending succeeded; and
\* when the host failed nothing but the 7z run, the answer is 200 and carries the
\* archive, so the file was still there when it was handed to send_file.
C5_ArtifactRemoved ==
    last.op = "download_folder" /\ last.temp # {} =>
        /\ \A t \in last.temp : t \notin DOMAIN fs
        /\ (last.fault \in {"none", "tool"} =>
               last.status = 200 /\ last.resp.fmt \in {"zip", "7z"})
        /\ (last.fault \in {"compress", "send"} /\ last.status # 200 =>
               last.resp = NoResp)

\* C5 witness: a download whose sending failed after the artifact was written
C5_SendFailed ==
    /\ last.op = "download_folder"
    /\ last.temp # {}
    /\ last.fault = "send"
    /\ last.status = 302

\* the path of q below the directory d
Below(q, d) == SubSeq(q, Len(d) + 1, Len(q))

FilesUnder(f, d) == {q \in DOMAIN f : IsFileAt(f, q) /\ IsPrefix(d, q)}

\* C6: extracting the artifact of compress_directory(D) into an empty directory
\* gives, for every regular file under D, a file at the same relative path with the
\* same bytes.
C6_RoundTrip ==
    last.op = "round_trip" =>
        \A q \in FilesUnder(pre, last.dirs[1]) :
            LET copy == last.dirs[2] \o Below(q, last.dirs[1])
            IN  IsFileAt(fs, copy) /\ fs[copy].content = pre[q].content

\* C7: the members of the zip of a directory are exactly the files of its subtree,
\* each once, each named by its path below the directory with "/" between the
\* segments.
C7_ZipMembers ==
    last.op = "zip_directory" =>
        LET d     == last.dirs[1]
            m     == last.resp.members
            files == FilesUnder(pre, d)
        IN  /\ Len(m) = Cardinality(files)
            /\ \A q \in files :
                   Cardinality({i \in DOMAIN m : Split(m[i].name, Slash) = Below(q, d)}) = 1
            /\ \A i \in DOMAIN m :
                   \E q \in files : /\ Split(m[i].name, Slash) = Below(q, d)
                                    /\ m[i].data = pre[q].content.bytes

\* C7 witness: a directory with a file of its own and a file two levels down
C7_NestedZipped ==
    /\ last.op = "zip_directory"
    /\ \E i, j \in DOMAIN last.resp.members :
          /\ Len(Split(last.resp.members[i].name, Slash)) = 1
          /\ Len(Split(last.resp.members[j].name, Slash)) = 3

\* the path a remove request names: file_path without its leading "/", below the root
Named == PathJoin(OUTPUT_DIR, LStrip(last.args[1], {Slash}))

\* C8: removing a path that does not exist answers 404 and changes nothing; removing
\* a regular file deletes that file and nothing else; removing a directory answers
\* success and deletes the directory and everything below it, and nothing else.
C8_Remove ==
    last.op = "remove" /\ last.args[1] # <<>> =>
        LET t == Real(pre, Named)
        IN  /\ ~exists(pre, Named) => last.status = 404 /\ fs = pre
            /\ is_file(pre, Named) =>
                  /\ last.status = 200
                  /\ DOMAIN fs = DOMAIN pre \ {t}
                  /\ \A q \in DOMAIN fs : fs[q] = pre[q]
            /\ is_dir(pre, Named) =>
                  /\ last.status = 200
                  /\ DOMAIN fs = {q \in DOMAIN pre : ~IsPrefix(t, q)}
                  /\ \A q \in DOMAIN fs : fs[q] = pre[q]

\* C8 witness: a directory that held something was removed
C8_TreeRemoved ==
    /\ last.op = "remove"
    /\ last.status = 200
    /\ is_dir(pre, Named)
    /\ \E q \in DOMAIN pre : Len(q) > Len(Real(pre, Named)) /\ IsPrefix(Real(pre, Named), q)

\* a name that ends in "." and an extension of the table, whatever its case
CarriesAllowedExtension(name) ==
    \E i \in DOMAIN name :
        /\ name[i] = Dot
        /\ Dot \notin Range(SubSeq(name, i + 1, Len(name)))
        /\ StrLower(SubSeq(name, i + 1, Len(name))) \in ALLOWED_EXTENSIONS

\* C9: an accepted upload changes nothing but the files it wrote, one at most per
\* declared name and exactly one for a single declared name; each is a regular file
\* directly in the destination directory, named by one non-empty segment of safe
\* characters that carries an allowed extension.
C9_UploadInsideDestDir ==
    last.op = "upload_file" /\ last.status = 200 =>
        /\ Changed \subseteq last.wrote
        /\ Cardinality(last.wrote) <= Len(last.args)
        /\ (Len(last.args) = 1 => Cardinality(last.wrote) = 1)
        /\ \A w \in last.wrote :
              /\ IsFileAt(fs, w)
              /\ fs[w].content.bytes \in UploadData
              /\ Parent(w) = DestDir
              /\ Name(w) # <<>>
              /\ Range(Name(w)) \subseteq SafeChars
              /\ Name(w) \notin {<<Dot>>, DotDot}
              /\ CarriesAllowedExtension(Name(w))

\* C9 witness: the declared name ../a.c was accepted
C9_ClimbingNameAccepted ==
    /\ last.op = "upload_file"
    /\ last.status = 200
    /\ last.args = << <<".", ".", "/", "a", ".", "c">> >>

Blank(s) == Range(s) \subseteq {" "}

\* C10: create_folder with a non-blank name creates the one directory destDir/<name
\* sanitised to one non-empty segment> and changes nothing else; with an empty or
\* blank name it reports the validation error and leaves the filesystem alone.
C10_CreateFolder ==
    last.op = "create_folder" =>
        /\ Blank(last.args[1]) => last.flash = "empty" /\ fs = pre
        /\ ~Blank(last.args[1]) =>
              /\ Cardinality(Changed) <= 1
              /\ \A q \in Changed :
                    /\ IsDirAt(fs, q)
                    /\ q \notin DOMAIN pre
                    /\ Parent(q) = DestDir
                    /\ Name(q) # <<>>
                    /\ Range(Name(q)) \subseteq SafeChars

\* the text after the last "." of a name that has one
AfterLastDot(name) ==
    CHOOSE t \in {SubSeq(name, i + 1, Len(name)) : i \in 1..Len(name)} :
        /\ Dot \notin Range(t)
        /\ name[Len(name) - Len(t)] = Dot

\* the name with every letter in the other case
SwapCase(name) ==
    [i \in DOMAIN name |->
        IF \E k \in DOMAIN Upper : Upper[k] = name[i]
        THEN Lower[CHOOSE k \in DOMAIN Upper : Upper[k] = name[i]]
        ELSE IF \E k \in DOMAIN Lower : Lower[k] = name[i]
        THEN Upper[CHOOSE k \in DOMAIN Lower : Lower[k] = name[i]]
        ELSE name[i]]

\* C11: allowed_file(name) is true exactly when the name has a "." and the text
\* after its last ".", lower-cased, is in the allowed-extension table; the answer
\* does not depend on the case of the letters, and a name with no "." is refused.
C11_AllowedFile ==
    last.op = "allowed_file" =>
        /\ (last.flash = "True") <=>
              /\ \E i \in DOMAIN last.req : last.req[i] = Dot
              /\ StrLower(AfterLastDot(last.req)) \in ALLOWED_EXTENSIONS
        /\ (last.flash = "True") <=> allowed_file(SwapCase(last.req))
        /\ Dot \notin Range(last.req) => last.flash = "False"

\* image.JPG has been accepted
C11_UpperCaseAccepted ==
    /\ last.op = "allowed_file"
    /\ last.req = <<"i", "m", "a", "g", "e", ".", "J", "P", "G">>
    /\ last.flash = "True"

\* C12: allowed_file refuses test.exe and script.sh: the extensions exe and sh are
\* not in the shipped table.
C12_ExeShRefused ==
    /\ last.op = "allowed_file"
    /\ last.req \in { <<"t", "e", "s", "t", ".", "e", "x", "e">>,
                      <<"s", "c", "r", "i", "p", "t", ".", "s", "h">> }
    => last.flash = "False"

\* the archives of UnzipArchives with a member that climbs out
Escaping ==
    {a \in UnzipArchives :
        a.fmt = "zip" /\ \E i \in DOMAIN a.members : Climbs(a.members[i].name)}

\* C13: unzip_file on bytes that are no zip signals an error that differs from the
\* one it signals for an archive with an escaping member, and in both cases the
\* filesystem is left as it was.
C13_InvalidArchiveDistinct ==
    /\ last.op = "unzip_file"
    /\ last.body = NotArchive
    => /\ last.err # ""
       /\ fs = pre
       /\ \A a \in Escaping :
             LET r == unzip_file(pre, a, last.dirs[1])
             IN  /\ r.err # ""
                 /\ r.fs = pre
                 /\ r.err # last.err

\* C14: a download request (GET of a path, or the download_folder action) for a path
\* that exists neither as a file nor as a directory is answered 404 and leaves the
\* filesystem as it was.
C14_MissingPathNotFound ==
    /\ last.op \in {"get", "download_folder"}
    /\ ~exists(pre, PathJoin(OUTPUT_DIR, last.req))
    => /\ last.status = 404
       /\ fs = pre

Mime7z  == "application/x-7z-compressed"
MimeZip == "application/zip"

\* C15: a directory download is named <dirname>.7z when its mimetype is
\* application/x-7z-compressed and <dirname>.zip when it is application/zip.
C15_NameMatchesMimetype ==
    /\ last.op = "download_folder"
    /\ last.status = 200
    => LET dirname == Name(PathJoin(OUTPUT_DIR, last.req))
       IN  /\ last.mimetype \in {Mime7z, MimeZip}
           /\ last.mimetype = Mime7z  => last.download_name = dirname \o Ext7z
           /\ last.mimetype = MimeZip => last.download_name = dirname \o ExtZip

\* C16: compress_directory answers application/x-7z-compressed exactly when 7z is
\* there and its run succeeded, and application/zip otherwise; the artifact it wrote
\* has the format the mimetype names; without 7z, or with a failed 7z run, it still
\* succeeds.
C16_MimetypeNamesFormat ==
    last.op = "round_trip" =>
        LET tool == has7z /\ last.fault # "tool"
        IN  /\ last.mimetype = (IF tool THEN Mime7z ELSE MimeZip)
            /\ last.mimetype = Mime7z  => last.resp.fmt = "7z"
            /\ last.mimetype = MimeZip => last.resp.fmt = "zip"
            /\ ~tool => last.err = ""

\* how often x occurs in the sequence s
Count(s, x) == Cardinality({i \in DOMAIN s : s[i] = x})

\* C17: list_directory(dir), for a dir that is a directory or can be made one, leaves
\* dir a directory, creating only dir and its missing ancestors, and lists every
\* immediate child of dir exactly once, in folders if it is a directory and in files
\* otherwise; nothing else is listed and no name is in both.
C17_ListDirectory ==
    LET d       == PathJoin(OUTPUT_DIR, last.req)
        kids    == {q \in DOMAIN fs : Len(q) = Len(d) + 1 /\ SubSeq(q, 1, Len(d)) = d}
        listed  == last.folders \o last.files
    IN  /\ last.op = "list_directory"
        /\ \A n \in 1..Len(d) : ~IsFileAt(pre, SubSeq(d, 1, n))
        => /\ IsDirAt(fs, d)
           /\ \A q \in Changed :
                 q \notin DOMAIN pre /\ IsDirAt(fs, q) /\ IsPrefix(q, d)
           /\ \A q \in kids :
                 /\ Count(listed, Name(q)) = 1
                 /\ IsDirAt(fs, q) <=> Count(last.folders, Name(q)) = 1
           /\ \A i \in DOMAIN listed : \E q \in kids : Name(q) = listed[i]
           /\ \A i \in DOMAIN last.folders, j \in DOMAIN last.files :
                 last.folders[i] # last.files[j]

\* the root holding the file a.c and the directory d with d/a.c has been listed:
\* folders = [d], files = [a.c]
C17_NestedListed ==
    /\ last.op = "list_directory"
    /\ last.req = <<>>
    /\ last.folders = << <<"d">> >>
    /\ last.files = << <<"a", ".", "c">> >>
    /\ OUTPUT_DIR \o << <<"d">>, <<"a", ".", "c">> >> \in DOMAIN fs

\* C18: the storage root is a directory in every reachable state, and what a remove
\* request deletes lies strictly below it.
C18_RootSurvives ==
    /\ IsDirAt(fs, OUTPUT_DIR)
    /\ last.op = "remove" =>
          \A q \in DOMAIN pre \ DOMAIN fs : InsideRoot(q) /\ q # OUTPUT_DIR

\* C19: when a remove and a second request for the same existing path have both
\* finished, whatever the order of their steps, each has answered 200 or 404, and a
\* path a remove reported removed is absent.
C19_RaceOutcomes ==
    (\A t \in DOMAIN threads : threads[t].pc = "done") =>
        /\ \A t \in DOMAIN threads : threads[t].status \in {200, 404}
        /\ \A t \in DOMAIN threads :
              threads[t].op = "remove" /\ threads[t].status = 200
              => ~exists(fs, AbsPath(t))

====
